---- MODULE Spec2Model ----
(***************************************************************************)
(* A model of the session flow controller of the tutoring backend:         *)
(* backend/core/revision_agents.py (ProgressiveRevisionAgent), with        *)
(* backend/config.py (Config), backend/models/schemas.py (SessionState)    *)
(* and backend/core/mongodb_client.py.                                     *)
(*                                                                         *)
(* A call of the agent's API runs without interruption between its awaits  *)
(* of the text generator (the content store and the durable store are      *)
(* called synchronously).  A continue_revision call whose handler reaches  *)
(* a generator call is two actions: up to the await, where the turn is     *)
(* counted on the cached session and nothing is written or returned, and   *)
(* from the generator's result to the end of the call; the calls of other  *)
(* session ids run in between.  Every other call is one action.  The       *)
(* calls on one session id are made one after the other.  What the         *)
(* collaborators answer in a call (the text generator faulting, a durable  *)
(* write being lost, the content store faulting) is an input of the        *)
(* action; a behaviour has at most one collaborator fault and at most one  *)
(* process restart.                                                        *)
(*                                                                         *)
(* SessionState is a pydantic model with nine declared fields and no       *)
(* configuration.  The agent reads and assigns attributes that are not     *)
(* among them (concept_chunks, current_chunk_index, max_conversations,     *)
(* completion_threshold, quiz_in_progress, ...): such an assignment raises *)
(* ValueError and such a read raises AttributeError.  A handler is         *)
(* modelled up to the first statement that raises; the statements after it *)
(* are never executed and have no definition here.  An outcome records the *)
(* line of revision_agents.py that raised.                                 *)
(*                                                                         *)
(* Strings are TLA+ strings and the string functions of the code (lower,   *)
(* strip, substring test) are computed character by character, over the    *)
(* characters a string of a module can hold.                               *)
(***************************************************************************)
EXTENDS Integers, Sequences, FiniteSets, TLC

VARIABLES
    content,      \* the content store: the ordered chunks of the topic
    cache,        \* ProgressiveRevisionAgent.session_states
    db,           \* the durable store: one snapshot document (with its turn log) per session id
    resp,         \* what the last API call returned, or the exception it raised
    call,         \* the last API call: its inputs, the session it resolved (pre) and the steps it took
    ncont,        \* per session id: continue_revision calls that found the session the id has, -1 without one
    quizzed,      \* per session id: a mini_quiz turn has generated a quiz that no turn has evaluated
    restarted,    \* the process has restarted
    nodd,         \* utterances so far that were a question or a manual end (counted under SpecFlow)
    faulted,      \* a collaborator (generator, content store, durable store) has faulted
    probe,        \* input and result of a pure-function application
    flight,       \* per session id: the continue_revision call suspended at its generator call
    nstart,       \* start_revision_session calls so far
    nturn         \* continue_revision calls so far that found their session

vars == <<content, cache, db, resp, call, ncont, quizzed, restarted, nodd, faulted, probe, flight,
          nstart, nturn>>

----------------------------------------------------------------------------
(* Bounds of the model *)

\* continue_revision calls that find their session under Spec (every fault placement)
MaxTurns == 3
\* start_revision_session calls under Spec
MaxStarts == 2
\* continue_revision calls per session under SpecFlow (fault-free scheduling)
MaxFlowTurns == 16
\* start_revision_session calls under SpecFlow
MaxFlowStarts == 2
\* largest number of chunks the content store holds for the topic under SpecFlow
MaxChunks == 7
\* number of chunks the content store holds for the topic under Spec, when it holds any
MaxSpecChunks == 1
\* utterances of one behaviour of SpecFlow that are a question or a manual end
MaxOdd == 1
\* largest turn counter the classifier is applied to under SpecClassify
MaxCount == 41
\* continue_revision calls that find their session under SpecPair
MaxPairTurns == 4
\* start_revision_session calls under SpecPair
MaxPairStarts == 3
\* largest number of chunks the content store holds for the topic under SpecPair
MaxPairChunks == 1

----------------------------------------------------------------------------
(* Strings *)

Min(a, b) == IF a <= b THEN a ELSE b

\* the characters of s, as a set
CharsOf(s) == {SubSeq(s, i, i) : i \in 1..Len(s)}

\* the characters c with c.lower() # c, and c.lower() at the same position:
\* the ASCII capitals and the capitals of the Latin, Greek, Cyrillic and
\* further alphabets, as far as both characters can be written in a string
UpperChars ==
    "ABCDEFGHIJKLMNOPQRSTUVWXYZÀÁÂÃÄÅÆÇÈÉÊËÌÍÎÏÐÑÒÓÔÕÖØÙÚÛÜÝÞƂƄƇƋ" \o
    "ƎƑƘƠƢƤƦƧƩƬƮƯƱƲƳƵƷƸƼǄǅǇǈǊǋǍǏǑǓǕǗǙǛǞǠǢǤǦǨǪǬǮǱǲǴǶǷǸǺǼǾΆΈΉΊΌΎΏΑΒ" \o
    "ΓΔΕΖΗΘΙΚΛΜΝΞΟΠΡΣΤΥΦΧΨΩΪΫϏϘϚϜϞϠϢϤϦϨϪϬϮϴϷϹϺҀҊҌҎҐҒҔҖҘҚҜҞҠҢҤҦҨҪҬ" \o
    "ҮҰҲҴҶҸҺҼҾӀӁӃӅӇӉӋӍӐӒӔӖӘӚӜӞӠӢӤӦӨӪӬӮӰӲӴӶӸӺӼӾᎰᎱᎲᎳᎴᎵᎶᎷᎸᎹᎺᎻᎼᎽᎾᎿᏀᏁᏂ" \o
    "ᏃᏄᏅᏆᏇᏈᏉᏊᏋᏌᏍᏎᏏᏐᏑᏒᏓᏔᏕᏖᏗᏘᏙᏚᏛᏜᏝᏞᏟᏠᏡᏢᏣᏤᏥᏦᏧᏨᏩᏪᏫᏬᏭᏮᏯᏰᏱᏲᏳᏴᏵᲐᲑᲒᲓᲔᲕᲖᲗᲘ" \o
    "ᲙᲚᲛᲜᲝᲞᲟᲠᲡᲢᲣᲤᲥᲦᲧᲨᲩᲪᲫᲬᲭᲮᲯᲰᲱᲲᲳᲴᲵᲶᲷᲸᲹᲺᲽᲾᲿẀẂẄẆẈẊẌẎẐẒẔẞẠẢẤẦẨẪẬẮẰẲẴ" \o
    "ẶẸẺẼẾỀỂỄỆỈỊỌỎỐỒỔỖỘỚỜỞỠỢỤỦỨỪỬỮỰỲỴỶỸỺỼỾᾈᾉᾊᾋᾌᾍᾎᾏᾘᾙᾚᾛᾜᾝᾞᾟᾨᾩᾪᾫᾬᾭᾮ" \o
    "ᾯᾸᾹᾼῌῘῙῨῩῬῼↃⒶⒷⒸⒹⒺⒻⒼⒽⒾⒿⓀⓁⓂⓃⓄⓅⓆⓇⓈⓉⓊⓋⓌⓍⓎⓏⲀⲂⲄⲆⲈⲊⲌⲎⲐⲒⲔⲖⲘⲚⲜⲞⲠⲢⲤⲦⲨⲪ" \o
    "ⲬⲮⲰⲲⲴⲶⲸⲺⲼⲾⳀⳂⳄⳆⳈⳊⳌⳎⳐⳒⳔⳖⳘⳚⳜⳞⳠⳢⳫⳭⳲꚀꚂꚄꚆꚈꚊꚌꚎꚐꚒꚔꚖꚘꚚꞀꞂꞄꞆꞋꞐꞒꞖꞘꞚꞜꞞꞠꞢꞤ" \o
    "ꞦꞨꞰꞱꞲꞴꞶꞸꞺꞼꞾꟀꟂꟄꟅꟆꟇꟉꟐꟖꟘꟵ"
LowerChars ==
    "abcdefghijklmnopqrstuvwxyzàáâãäåæçèéêëìíîïðñòóôõöøùúûüýþƃƅƈƌ" \o
    "ǝƒƙơƣƥʀƨʃƭʈưʊʋƴƶʒƹƽǆǆǉǉǌǌǎǐǒǔǖǘǚǜǟǡǣǥǧǩǫǭǯǳǳǵƕƿǹǻǽǿάέήίόύώαβ" \o
    "γδεζηθικλμνξοπρστυφχψωϊϋϗϙϛϝϟϡϣϥϧϩϫϭϯθϸϲϻҁҋҍҏґғҕҗҙқҝҟҡңҥҧҩҫҭ" \o
    "үұҳҵҷҹһҽҿӏӂӄӆӈӊӌӎӑӓӕӗәӛӝӟӡӣӥӧөӫӭӯӱӳӵӷӹӻӽӿꮀꮁꮂꮃꮄꮅꮆꮇꮈꮉꮊꮋꮌꮍꮎꮏꮐꮑꮒ" \o
    "ꮓꮔꮕꮖꮗꮘꮙꮚꮛꮜꮝꮞꮟꮠꮡꮢꮣꮤꮥꮦꮧꮨꮩꮪꮫꮬꮭꮮꮯꮰꮱꮲꮳꮴꮵꮶꮷꮸꮹꮺꮻꮼꮽꮾꮿᏸᏹᏺᏻᏼᏽაბგდევზთი" \o
    "კლმნოპჟრსტუფქღყშჩცძწჭხჯჰჱჲჳჴჵჶჷჸჹჺჽჾჿẁẃẅẇẉẋẍẏẑẓẕßạảấầẩẫậắằẳẵ" \o
    "ặẹẻẽếềểễệỉịọỏốồổỗộớờởỡợụủứừửữựỳỵỷỹỻỽỿᾀᾁᾂᾃᾄᾅᾆᾇᾐᾑᾒᾓᾔᾕᾖᾗᾠᾡᾢᾣᾤᾥᾦ" \o
    "ᾧᾰᾱᾳῃῐῑῠῡῥῳↄⓐⓑⓒⓓⓔⓕⓖⓗⓘⓙⓚⓛⓜⓝⓞⓟⓠⓡⓢⓣⓤⓥⓦⓧⓨⓩⲁⲃⲅⲇⲉⲋⲍⲏⲑⲓⲕⲗⲙⲛⲝⲟⲡⲣⲥⲧⲩⲫ" \o
    "ⲭⲯⲱⲳⲵⲷⲹⲻⲽⲿⳁⳃⳅⳇⳉⳋⳍⳏⳑⳓⳕⳗⳙⳛⳝⳟⳡⳣⳬⳮⳳꚁꚃꚅꚇꚉꚋꚍꚏꚑꚓꚕꚗꚙꚛꞁꞃꞅꞇꞌꞑꞓꞗꞙꞛꞝꞟꞡꞣꞥ" \o
    "ꞧꞩʞʇʝꞵꞷꞹꞻꞽꞿꟁꟃꞔʂᶎꟈꟊꟑꟗꟙꟶ"
UpperSet == CharsOf(UpperChars)
LowerOf ==
    [c \in UpperSet |->
        LET i == CHOOSE j \in 1..Len(UpperChars) : SubSeq(UpperChars, j, j) = c
        IN  SubSeq(LowerChars, i, i)]

\* the capitals whose lower-case character cannot be written in a string of a
\* module: the lowering of a string that holds one of them has no value here
UnwritableLowerChars ==
    "ƁƆƉƊƏƐƓƔƖƗƜƝƟϽϾϿႠႡႢႣႤႥႦႧႨႩႪႫႬႭႮႯႰႱႲႳႴႵႶႷႸႹႺႻႼႽႾႿჀჁჂჃჄჅჇჍᎠᎡᎢᎣ" \o
    "ᎤᎥᎦᎧᎨᎩᎪᎫᎬᎭᎮᎯᾺΆῈΈῊΉῚΊῪΎῸΌῺΏꞍꞪꞫꞬꞭꞮꞳ"

\* str.lower() of a string of one character
LowerCh(c) ==
    CASE c \in UpperSet -> LowerOf[c]
      [] c \notin UpperSet /\ c \notin CharsOf(UnwritableLowerChars) -> c

\* the cased characters (letters with a case) that are not case-ignorable, and
\* the case-ignorable characters (apostrophe, full stop, colon, accents,
\* combining marks, ...): what the lowering of a capital sigma looks at
CasedChars ==
    "ABCDEFGHIJKLMNOPQRSTUVWXYZabcdefghijklmnopqrstuvwxyzªµºÀÁÂÃÄ" \o
    "ÅÆÇÈÉÊËÌÍÎÏÐÑÒÓÔÕÖØÙÚÛÜÝÞßàáâãäåæçèéêëìíîïðñòóôõöøùúûüýþÿƀƁƂ" \o
    "ƃƄƅƆƇƈƉƊƋƌƍƎƏƐƑƒƓƔƕƖƗƘƙƚƛƜƝƞƟƠơƢƣƤƥƦƧƨƩƪƫƬƭƮƯưƱƲƳƴƵƶƷƸƹƺƼƽƾƿ" \o
    "ǄǅǆǇǈǉǊǋǌǍǎǏǐǑǒǓǔǕǖǗǘǙǚǛǜǝǞǟǠǡǢǣǤǥǦǧǨǩǪǫǬǭǮǯǰǱǲǳǴǵǶǷǸǹǺǻǼǽǾǿ" \o
    "ʀʁʂʃʄʅʆʇʈʉʊʋʌʍʎʏʐʑʒʓʕʖʗʘʙʚʛʜʝʞʟʠʡʢʣʤʥʦʧʨʩʪʫʬʭʮʯΆΈΉΊΌΎΏΐΑΒΓΔΕ" \o
    "ΖΗΘΙΚΛΜΝΞΟΠΡΣΤΥΦΧΨΩΪΫάέήίΰαβγδεζηθικλμνξοπρςστυφχψωϊϋόύώϏϐϑϒ" \o
    "ϓϔϕϖϗϘϙϚϛϜϝϞϟϠϡϢϣϤϥϦϧϨϩϪϫϬϭϮϯϰϱϲϳϴϵϷϸϹϺϻϼϽϾϿҀҁҊҋҌҍҎҏҐґҒғҔҕҖҗ" \o
    "ҘҙҚқҜҝҞҟҠҡҢңҤҥҦҧҨҩҪҫҬҭҮүҰұҲҳҴҵҶҷҸҹҺһҼҽҾҿӀӁӂӃӄӅӆӇӈӉӊӋӌӍӎӏӐӑӒӓ" \o
    "ӔӕӖӗӘәӚӛӜӝӞӟӠӡӢӣӤӥӦӧӨөӪӫӬӭӮӯӰӱӲӳӴӵӶӷӸӹӺӻӼӽӾӿրցւփքօֆևֈႠႡႢႣႤႥႦ" \o
    "ႧႨႩႪႫႬႭႮႯႰႱႲႳႴႵႶႷႸႹႺႻႼႽႾႿჀჁჂჃჄჅჇჍაბგდევზთიკლმნოპჟრსტუფქღყშჩც" \o
    "ძწჭხჯჰჱჲჳჴჵჶჷჸჹჺჽჾჿᎠᎡᎢᎣᎤᎥᎦᎧᎨᎩᎪᎫᎬᎭᎮᎯᎰᎱᎲᎳᎴᎵᎶᎷᎸᎹᎺᎻᎼᎽᎾᎿᏀᏁᏂᏃᏄᏅᏆᏇᏈ" \o
    "ᏉᏊᏋᏌᏍᏎᏏᏐᏑᏒᏓᏔᏕᏖᏗᏘᏙᏚᏛᏜᏝᏞᏟᏠᏡᏢᏣᏤᏥᏦᏧᏨᏩᏪᏫᏬᏭᏮᏯᏰᏱᏲᏳᏴᏵᏸᏹᏺᏻᏼᏽᲀᲁᲂᲃᲄᲅᲆᲇᲈ" \o
    "ᲐᲑᲒᲓᲔᲕᲖᲗᲘᲙᲚᲛᲜᲝᲞᲟᲠᲡᲢᲣᲤᲥᲦᲧᲨᲩᲪᲫᲬᲭᲮᲯᲰᲱᲲᲳᲴᲵᲶᲷᲸᲹᲺᲽᲾᲿᶀᶁᶂᶃᶄᶅᶆᶇᶈᶉᶊᶋᶌᶍ" \o
    "ᶎᶏᶐᶑᶒᶓᶔᶕᶖᶗᶘᶙᶚẀẁẂẃẄẅẆẇẈẉẊẋẌẍẎẏẐẑẒẓẔẕẖẗẘẙẚẛẜẝẞẟẠạẢảẤấẦầẨẩẪẫẬậẮ" \o
    "ắẰằẲẳẴẵẶặẸẹẺẻẼẽẾếỀềỂểỄễỆệỈỉỊịỌọỎỏỐốỒồỔổỖỗỘộỚớỜờỞởỠỡỢợỤụỦủỨứỪ" \o
    "ừỬửỮữỰựỲỳỴỵỶỷỸỹỺỻỼỽỾỿᾀᾁᾂᾃᾄᾅᾆᾇᾈᾉᾊᾋᾌᾍᾎᾏᾐᾑᾒᾓᾔᾕᾖᾗᾘᾙᾚᾛᾜᾝᾞᾟᾠᾡᾢᾣᾤᾥᾦ" \o
    "ᾧᾨᾩᾪᾫᾬᾭᾮᾯᾰᾱᾲᾳᾴᾶᾷᾸᾹᾺΆᾼιῂῃῄῆῇῈΈῊΉῌῐῑῒΐῖῗῘῙῚΊῠῡῢΰῤῥῦῧῨῩῪΎῬῲῳῴῶῷ" \o
    "ῸΌῺΏῼↃↄⒶⒷⒸⒹⒺⒻⒼⒽⒾⒿⓀⓁⓂⓃⓄⓅⓆⓇⓈⓉⓊⓋⓌⓍⓎⓏⓐⓑⓒⓓⓔⓕⓖⓗⓘⓙⓚⓛⓜⓝⓞⓟⓠⓡⓢⓣⓤⓥⓦⓧⓨⓩⲀ" \o
    "ⲁⲂⲃⲄⲅⲆⲇⲈⲉⲊⲋⲌⲍⲎⲏⲐⲑⲒⲓⲔⲕⲖⲗⲘⲙⲚⲛⲜⲝⲞⲟⲠⲡⲢⲣⲤⲥⲦⲧⲨⲩⲪⲫⲬⲭⲮⲯⲰⲱⲲⲳⲴⲵⲶⲷⲸⲹⲺⲻⲼ" \o
    "ⲽⲾⲿⳀⳁⳂⳃⳄⳅⳆⳇⳈⳉⳊⳋⳌⳍⳎⳏⳐⳑⳒⳓⳔⳕⳖⳗⳘⳙⳚⳛⳜⳝⳞⳟⳠⳡⳢⳣⳤⳫⳬⳭⳮⳲⳳꚀꚁꚂꚃꚄꚅꚆꚇꚈꚉꚊꚋꚌꚍ" \o
    "ꚎꚏꚐꚑꚒꚓꚔꚕꚖꚗꚘꚙꚚꚛꞀꞁꞂꞃꞄꞅꞆꞇꞋꞌꞍꞎꞐꞑꞒꞓꞔꞕꞖꞗꞘꞙꞚꞛꞜꞝꞞꞟꞠꞡꞢꞣꞤꞥꞦꞧꞨꞩꞪꞫꞬꞭꞮꞯꞰꞱ" \o
    "ꞲꞳꞴꞵꞶꞷꞸꞹꞺꞻꞼꞽꞾꞿꟀꟁꟂꟃꟄꟅꟆꟇꟈꟉꟊꟐꟑꟓꟕꟖꟗꟘꟙꟵꟶꟺꮀꮁꮂꮃꮄꮅꮆꮇꮈꮉꮊꮋꮌꮍꮎꮏꮐꮑꮒꮓꮔꮕꮖꮗ" \o
    "ꮘꮙꮚꮛꮜꮝꮞꮟꮠꮡꮢꮣꮤꮥꮦꮧꮨꮩꮪꮫꮬꮭꮮꮯꮰꮱꮲꮳꮴꮵꮶꮷꮸꮹꮺꮻꮼꮽꮾꮿ"
CaseIgnorableChars ==
    "'.:^¨­¯´·¸ʰʱʲʳʴʵʶʷʸʹʺʻʼʽʾʿˀˁ˂˃˄˅ˆˇˈˉˊˋˌˍˎˏːˑ˒˓˔˕˖˗˘˙˚˛˜˝˞˟ˠˡ" \o
    "ˢˣˤ˥˦˧˨˩˪˫ˬ˭ˮ˯˰˱˲˳˴˵˶˷˸˹˺˻˼˽˾˿΄΅·҃҄҅҆҇҈҉֑֖֛֢֣֤֚֒֓֔֕֗֘֙֜֝֞֟֠֡" \o
    "ְֱֲֳִֵֶַָׇֹֺֻּֽֿׁׂ֥֦֧֪ׅ֭֮֨֩֫֬֯ׄ״ۖۗۘۙۚۛۜ۝ۣ۟۠ۡۢۤۥۦ۪ۭۧۨ۫۬ަާިީުޫ" \o
    "ެޭޮޯް߲߫߬߭߮߯߰߱߳ߴߵߺ߽࢈࢐࢑࢙࢚࢛࢘࢜࢝࢞࢟ࣉ࣏࣐࣑࣒࣓࣊࣋࣌࣍࣎ࣔࣕࣖࣗࣘࣙࣚࣛࣜࣝࣞࣟ࣠࣡࣢ࣣࣦࣤࣥࣧ" \o
    "ࣰࣱࣲࣩ࣭࣮࣯ࣶࣹࣺࣨ࣪࣫࣬ࣳࣴࣵࣷࣸࣻࣼࣽࣾࣿঁ়ুূৃৄ্ৢৣ৾ઁં઼ુૂૃૄૅેૈ્ૢૣૺૻૼ૽૾૿ஂீ்ಁ಼ಿೆ" \o
    "ೌ್ೢೣඁ්ිීුූັິີຶື຺ຸູົຼໆ່້໊໋໌ໍ྄ཱྀྀྂྃ྆྇ྍྎྏྐྑྒྒྷྔྕྖྗྙྚྛྜྜྷྞྟྠྡྡྷྣྤྥྦྦྷ" \o
    "ྨྩྪྫྫྷྭྮྯྰྱྲླྴྵྶྷྸྐྵྺྻྼ࿆ႂႅႆႍႝჼ឴឵ិីឹឺុូួំ៉៊់៌៍៎៏័៑្៓ៗ៝ᢅᢆᢩᪧ᪰᪱᪲᪳᪴" \o
    "᪵᪶᪷᪸᪹᪺᪽᪻᪼᪾ᪿᫀ᫃᫄᫊᫁᫂᫅᫆᫇᫈᫉᫋ᫌᫍᫎᮀᮁᮢᮣᮤᮥᮨᮩ᮫ᮬᮭ᯦ᯨᯩᯭᯯᯰᯱ᳔᳕᳖᳗᳘᳙᳜᳝᳞᳟᳐᳑᳒᳚᳛᳠" \o
    "᳢᳣᳤᳥᳦᳧᳨᳭᳴᳸᳹ᶛᶜᶝᶞᶟᶠᶡᶢᶣᶤᶥᶦᶧᶨᶩᶪᶫᶬᶭᶮᶯᶰᶱᶲᶳᶴᶵᶶᶷᶸᶹᶺᶻᶼᶽᶾᶿ᷂᷊᷀᷁᷃᷄᷅᷆᷇᷈᷉᷋" \o
    "᷐᷎᷺᷏᷹᷽᷿᷷᷸᷌᷑᷒ᷓᷔᷕᷖᷗᷘᷙᷚᷛᷜᷝᷞᷟᷠᷡᷢᷣᷤᷥᷦᷧᷨᷩᷪᷫᷬᷭᷮᷯᷰᷱᷲᷳᷴ᷵᷻᷾᷶᷼᷍᾽᾿῀῁῍῎῏῝" \o
    "῞῟῭΅`´῾ₐₑₒₓₔₕₖₗₘₙₚₛₜ⃒⃓⃘⃙⃚⃐⃑⃔⃕⃖⃗⃛⃜⃝⃞⃟⃠⃡⃢⃣⃤⃥⃦⃪⃫⃨⃬⃭⃮⃯⃧⃩⃰⳯⳰⳱ⷠⷡⷢⷣ" \o
    "゙゚ⷤⷥⷦⷧⷨⷩⷪⷫⷬⷭⷮⷯⷰⷱⷲⷳⷴⷵⷶⷷⷸⷹⷺⷻⷼⷽⷾⷿ゛゜ゝゞーヽヾꓸꓹꓺꓻꓼꓽꚜꚝꚞꚟ꛰꛱ꞈ꞉꞊ꟲꟳꟴꟸꟹ꣄ꣅ꣠" \o
    "꣡꣢꣣꣤꣥꣦꣧꣨꣩꣪꣫꣬꣭꣮꣯꣰꣱ꣿꦀꦁꦂ꦳ꦶꦷꦸꦹꦼꦽꧏꧥꧦꪴꪰꪲꪳꪷꪸꪾ꪿꫁ꫝꫬꫭꫳꫴ꫶ꯥꯨ꯭﮲﮳﮴﮵﮶﮷﮸﮹﮺﮻﮼" \o
    "﮽﮾﮿﯀﯁﯂﻿ﾞﾟ￣￹￺￻"
CasedSet == CharsOf(CasedChars)
CaseIgnorableSet == CharsOf(CaseIgnorableChars)

\* the capital sigma at position i of s is final: the nearest character before
\* it that is not case-ignorable is cased, and the nearest one after it, if
\* there is one, is not
FinalSigma(s, i) ==
    LET solid == {j \in 1..Len(s) : SubSeq(s, j, j) \notin CaseIgnorableSet}
        before == {j \in solid : j < i}
        after == {j \in solid : j > i}
    IN  /\ before # {}
        /\ SubSeq(s, CHOOSE j \in before : \A k \in before : k <= j,
                     CHOOSE j \in before : \A k \in before : k <= j) \in CasedSet
        /\ after # {} =>
              SubSeq(s, CHOOSE j \in after : \A k \in after : k >= j,
                        CHOOSE j \in after : \A k \in after : k >= j) \notin CasedSet

\* str.lower(): the characters from position i on, lowered
RECURSIVE LowerFrom(_, _)
LowerFrom(s, i) ==
    IF i > Len(s) THEN ""
    ELSE (IF SubSeq(s, i, i) = "Σ" /\ FinalSigma(s, i) THEN "ς"
          ELSE LowerCh(SubSeq(s, i, i))) \o LowerFrom(s, i + 1)

\* str.lower()
Lower(s) == LowerFrom(s, 1)

\* the whitespace of str.strip(): space, tab, line feed, carriage return, form
\* feed, and, written as the characters themselves, U+000B, U+001C to U+001F,
\* U+0085, U+00A0 and U+1680
SpaceChars == " \t\n\r\f" \o "  "

IsSpace(c) == c \in CharsOf(SpaceChars)

\* str.strip(): from the first to the last character that is not whitespace
Strip(s) ==
    LET solid == {i \in 1..Len(s) : ~IsSpace(SubSeq(s, i, i))} IN
    IF solid = {} THEN ""
    ELSE SubSeq(s, CHOOSE i \in solid : \A j \in solid : i <= j,
                   CHOOSE i \in solid : \A j \in solid : i >= j)

\* the Python test  p in s  on strings
Contains(s, p) ==
    \E i \in 1..(Len(s) - Len(p) + 1) : SubSeq(s, i, i + Len(p) - 1) = p

\* an Optional[str] argument
None == [tag |-> "None"]
Some(t) == [tag |-> "Some", text |-> t]
\* the Python test  not user_query : None and the empty string are falsy
Falsy(q) == q.tag = "None" \/ q.text = ""

----------------------------------------------------------------------------
(* Config *)

DEFAULT_MAX_CONVERSATIONS == 25
DEFAULT_COMPLETION_THRESHOLD == 15

\* the table, in its insertion order
TOPIC_CONFIGURATIONS ==
    << [key |-> "photosynthesis", max_conversations |-> 30, completion_threshold |-> 20],
       [key |-> "respiration",    max_conversations |-> 25, completion_threshold |-> 15],
       [key |-> "cell_structure", max_conversations |-> 35, completion_threshold |-> 25],
       [key |-> "nutrition",      max_conversations |-> 20, completion_threshold |-> 12] >>

ConfigOf(e) ==
    [max_conversations |-> e.max_conversations, completion_threshold |-> e.completion_threshold]

\* a resolution that takes the last partial match of the table
get_topic_config_last_match(topic) ==
    LET topic_lower == Strip(Lower(topic))
        T == TOPIC_CONFIGURATIONS
        exact == {i \in 1..Len(T) : T[i].key = topic_lower}
        partial == {i \in 1..Len(T) :
                       Contains(topic_lower, T[i].key) \/ Contains(T[i].key, topic_lower)}
        last(S) == CHOOSE i \in S : \A j \in S : i >= j
    IN  IF exact # {} THEN ConfigOf(T[last(exact)])
        ELSE IF partial # {} THEN ConfigOf(T[last(partial)])
        ELSE [max_conversations |-> DEFAULT_MAX_CONVERSATIONS,
              completion_threshold |-> DEFAULT_COMPLETION_THRESHOLD]

get_topic_config(topic) ==
    LET topic_lower == Strip(Lower(topic))
        T == TOPIC_CONFIGURATIONS
        exact == {i \in 1..Len(T) : T[i].key = topic_lower}
        partial == {i \in 1..Len(T) :
                       Contains(topic_lower, T[i].key) \/ Contains(T[i].key, topic_lower)}
        first(S) == CHOOSE i \in S : \A j \in S : i <= j
    IN  IF exact # {} THEN ConfigOf(T[first(exact)])
        ELSE IF partial # {} THEN ConfigOf(T[first(partial)])
        ELSE [max_conversations |-> DEFAULT_MAX_CONVERSATIONS,
              completion_threshold |-> DEFAULT_COMPLETION_THRESHOLD]

get_max_conversations(topic) == get_topic_config(topic).max_conversations
get_completion_threshold(topic) == get_topic_config(topic).completion_threshold

----------------------------------------------------------------------------
(* The flow configuration *)

\* a faulty variant of question_indicators, without "how"
question_indicators_without_how ==
    <<"?", "what", "why", "explain", "tell me", "help", "can you">>

question_indicators == <<"?", "what", "why", "how", "explain", "tell me", "help", "can you">>
session_end_phrases == <<"end session", "finish", "complete", "done", "exit", "summary">>

AnyIn(phrases, s) == \E i \in 1..Len(phrases) : Contains(s, phrases[i])

\* the utterance texts of the model; what the string tests below say of them is
\* computed once
Texts ==
    {"", "ok", "quick recap", "deep dive", "how", "Show me more", "WHY",
     "Tell me about it", "end session", "Now END SESSION please",
     "how do I end session", "what a summary", "I am done"}

\* any(phrase in user_query.lower() for phrase in session_end_phrases)
HasEndPhrase(text) == AnyIn(session_end_phrases, Lower(text))
HasEndPhraseOf == [text \in Texts |-> HasEndPhrase(text)]

\* _should_end_session
_should_end_session(user_query) ==
    IF Falsy(user_query) THEN FALSE
    ELSE IF user_query.text \in Texts THEN HasEndPhraseOf[user_query.text]
    ELSE HasEndPhrase(user_query.text)

\* any(indicator in user_query.lower() for indicator in question_indicators)
HasIndicator(text) == AnyIn(question_indicators, Lower(text))
HasIndicatorOf == [text \in Texts |-> HasIndicator(text)]

\* _has_question_indicators
_has_question_indicators(user_query) ==
    IF Falsy(user_query) THEN FALSE
    ELSE IF user_query.text \in Texts THEN HasIndicatorOf[user_query.text]
    ELSE HasIndicator(user_query.text)

\* a faulty variant of stage_patterns: the engaging_question rule before the mini_quiz rule
stage_patterns_question_first ==
    << [stage |-> "kickoff_response",  condition |-> "conversation_count == 1"],
       [stage |-> "user_question",     condition |-> "has_question_indicators"],
       [stage |-> "engaging_question", condition |-> "conversation_count % 3 == 0 and conversation_count > 2"],
       [stage |-> "mini_quiz",         condition |-> "conversation_count % 5 == 0 and conversation_count > 5"],
       [stage |-> "progress_check",    condition |-> "conversation_count % 8 == 0 and conversation_count > 8"],
       [stage |-> "progressive_recap", condition |-> "default"] >>

\* a rule table without the default rule
stage_patterns_without_default ==
    << [stage |-> "kickoff_response",  condition |-> "conversation_count == 1"],
       [stage |-> "user_question",     condition |-> "has_question_indicators"],
       [stage |-> "mini_quiz",         condition |-> "conversation_count % 5 == 0 and conversation_count > 5"],
       [stage |-> "engaging_question", condition |-> "conversation_count % 3 == 0 and conversation_count > 2"],
       [stage |-> "progress_check",    condition |-> "conversation_count % 8 == 0 and conversation_count > 8"] >>

\* the ordered rule table
stage_patterns ==
    << [stage |-> "kickoff_response",  condition |-> "conversation_count == 1"],
       [stage |-> "user_question",     condition |-> "has_question_indicators"],
       [stage |-> "mini_quiz",         condition |-> "conversation_count % 5 == 0 and conversation_count > 5"],
       [stage |-> "engaging_question", condition |-> "conversation_count % 3 == 0 and conversation_count > 2"],
       [stage |-> "progress_check",    condition |-> "conversation_count % 8 == 0 and conversation_count > 8"],
       [stage |-> "progressive_recap", condition |-> "default"] >>

\* a faulty variant of _evaluate_stage_condition: the quiz condition holds from 5 on
_evaluate_stage_condition_from_five(condition, conversation_count, user_query) ==
    CASE condition = "conversation_count == 1" -> conversation_count = 1
      [] condition = "has_question_indicators" -> _has_question_indicators(user_query)
      [] condition = "conversation_count % 5 == 0 and conversation_count > 5" ->
             conversation_count % 5 = 0 /\ conversation_count >= 5
      [] condition = "conversation_count % 3 == 0 and conversation_count > 2" ->
             conversation_count % 3 = 0 /\ conversation_count > 2
      [] condition = "conversation_count % 8 == 0 and conversation_count > 8" ->
             conversation_count % 8 = 0 /\ conversation_count > 8
      [] condition = "default" -> TRUE
      [] OTHER -> FALSE

\* _evaluate_stage_condition: the dictionary of condition checks, looked up by the condition string
_evaluate_stage_condition(condition, conversation_count, user_query) ==
    CASE condition = "conversation_count == 1" -> conversation_count = 1
      [] condition = "has_question_indicators" -> _has_question_indicators(user_query)
      [] condition = "conversation_count % 5 == 0 and conversation_count > 5" ->
             conversation_count % 5 = 0 /\ conversation_count > 5
      [] condition = "conversation_count % 3 == 0 and conversation_count > 2" ->
             conversation_count % 3 = 0 /\ conversation_count > 2
      [] condition = "conversation_count % 8 == 0 and conversation_count > 8" ->
             conversation_count % 8 = 0 /\ conversation_count > 8
      [] condition = "default" -> TRUE
      [] OTHER -> FALSE

\* _determine_stage_from_config: the stage of the first pattern whose condition holds
_determine_stage_from_config(conversation_count, user_query) ==
    LET hits == {i \in 1..Len(stage_patterns) :
                    _evaluate_stage_condition(stage_patterns[i].condition,
                                              conversation_count, user_query)}
    IN  IF hits = {} THEN "general"
        ELSE stage_patterns[CHOOSE i \in hits : \A j \in hits : i <= j].stage

----------------------------------------------------------------------------
(* Sessions and responses *)

\* a document of the content collection
Chunk(id, text) == [chunk_id |-> id, text |-> text]

\* the fields SessionState declares.  SessionState is a pydantic BaseModel
\* without a configuration: the constructor drops the keyword arguments that
\* name no field, assigning an attribute that is no field raises ValueError
\* and reading one raises AttributeError.
SessionFields ==
    {"session_id", "topic", "student_id", "conversation_count", "started_at",
     "last_interaction", "is_complete", "key_concepts_covered", "user_understanding_level"}

\* hasattr(session_state, name): an instance has the declared fields and can get
\* no other attribute
hasattr(name) == name \in SessionFields

\* getattr(session_state, name, default) for a name that is no field
getattr(name, default) ==
    CASE ~hasattr(name) -> default

\* a session that starts with one turn counted
NewSession_counted(session_id, topic, cfg) ==
    [session_id |-> session_id,
     topic |-> topic,
     conversation_count |-> 1,
     is_complete |-> FALSE,
     key_concepts_covered |-> <<>>]

\* SessionState(...) as start_revision_session calls it.  max_conversations and
\* completion_threshold (cfg) are passed and dropped; student_id, the two
\* timestamps and the understanding level are not looked at by the flow and
\* are left out.
NewSession(session_id, topic, cfg) ==
    [session_id |-> session_id,
     topic |-> topic,
     conversation_count |-> 0,
     is_complete |-> FALSE,
     key_concepts_covered |-> <<>>]

\* the keys a response dictionary may carry; a key that is absent has a filler value
NoDict ==
    [keys |-> {}, response |-> "", topic |-> "", session_id |-> "",
     conversation_count |-> -1, is_session_complete |-> FALSE, sources |-> <<>>,
     current_stage |-> "", max_conversations |-> -1, completion_threshold |-> -1]

\* the dictionary a stage handler returns
HandlerDict(response, stage, sources) ==
    [NoDict EXCEPT !.keys = {"response", "current_stage", "is_session_complete", "sources"},
                   !.response = response, !.current_stage = stage,
                   !.is_session_complete = FALSE, !.sources = sources]

\* the outcome of running a piece of the agent on a session: the session as it
\* left it; whether it raised, what and at which line of revision_agents.py;
\* thrown: the exception the stage handler of the turn raised, if any;
\* searched: whether the content search ran and whether the store faulted in
\* it; dict: the dictionary it returned (response_data, for a turn); the steps it
\* took and the durable writes it issued
Outcome(s, raised, exc, line, dict, steps) ==
    [s |-> s, raised |-> raised, exc |-> exc, line |-> line, thrown |-> "",
     searched |-> "no", dict |-> dict, steps |-> steps, writes |-> <<>>]

Raised(s, exc, line, steps) == Outcome(s, TRUE, exc, line, NoDict, steps)
Returned(s, dict, steps) == Outcome(s, FALSE, "", 0, dict, steps)

\* an outcome with the steps of its caller put before its own
Prefixed(steps, c) == [c EXCEPT !.steps = steps \o @]

\* a _generate_* call of a handler at the given line, which awaits
\* self.llm.generate_response(messages): the text, or the generator's exception
generate_response(s, text, gf, line, steps) ==
    IF gf THEN Raised(s, "GeneratorError", line, steps \o <<"generate">>)
    ELSE Returned(s, [NoDict EXCEPT !.keys = {"response"}, !.response = text],
                  steps \o <<"generate">>)

----------------------------------------------------------------------------
(* Completion *)

\* _complete_session: the flag is set (line 547); the statistics read
\* session_state.completion_threshold (line 554), which the object does not
\* have.  The conclusion (563), the final write (573) and the return are not
\* reached.
_complete_session(s) ==
    CASE ~hasattr("completion_threshold") ->
        Raised([s EXCEPT !.is_complete = TRUE], "AttributeError", 554, <<"complete">>)

----------------------------------------------------------------------------
(* Stage handlers.  gf: the generator call of the turn faults *)

\* _handle_progress_check.  Without a concept_chunks attribute total_concepts is
\* len(key_concepts_covered) (line 410).  When that is 0 the percentage reads
\* session_state.completion_threshold (line 413); otherwise the progress text is
\* generated (415) and line 418 reads it.
_handle_progress_check(s, gf) ==
    LET total_concepts == Len(s.key_concepts_covered)
        steps == <<"handler:progress_check">>
    IN  CASE ~hasattr("concept_chunks") /\ ~hasattr("completion_threshold") ->
            IF total_concepts > 0
            THEN LET response == generate_response(s, "progress", gf, 415, steps) IN
                 IF response.raised THEN response
                 ELSE Raised(s, "AttributeError", 418, response.steps)
            ELSE Raised(s, "AttributeError", 413, steps)

\* _handle_progressive_recap: the object has no current_chunk_index, and the
\* assignment that is to supply it raises (line 317)
_handle_progressive_recap(s, gf) ==
    CASE ~hasattr("current_chunk_index") ->
        Raised(s, "ValueError", 317, <<"handler:progressive_recap">>)

\* _handle_kickoff_response: None has no lower() (line 282); otherwise the
\* assignment of revision_mode raises (line 283)
_handle_kickoff_response(s, user_query, gf) ==
    CASE user_query.tag = "None" ->
            Raised(s, "AttributeError", 282, <<"handler:kickoff_response">>)
      [] user_query.tag = "Some" /\ ~hasattr("revision_mode") ->
            Raised(s, "ValueError", 283, <<"handler:kickoff_response">>)

\* an engaging question that records the concept it asks about before the
\* question is generated
_handle_engaging_question_recording(s, gf) ==
    LET asked == [s EXCEPT !.key_concepts_covered = Append(@, s.topic)]
        response == generate_response(asked, "question", gf, 353, <<"handler:engaging_question">>)
    IN  IF response.raised THEN response
        ELSE Raised(asked, "ValueError", 356, response.steps)

\* _handle_engaging_question: the question is generated (line 353), then the
\* assignment of expecting_answer raises (line 356)
_handle_engaging_question(s, gf) ==
    LET response == generate_response(s, "question", gf, 353,
                                      <<"handler:engaging_question">>) IN
    IF response.raised THEN response
    ELSE CASE ~hasattr("expecting_answer") -> Raised(s, "ValueError", 356, response.steps)

\* _evaluate_quiz_answers: its first statement assigns quiz_in_progress (line 434)
_evaluate_quiz_answers(s, gf) ==
    CASE ~hasattr("quiz_in_progress") ->
        Raised(s, "ValueError", 434, <<"handler:quiz_feedback">>)

\* _handle_mini_quiz: the object has no quiz_in_progress (line 370), so a quiz is
\* created: its text is generated (line 379), then the assignment of
\* quiz_in_progress raises (line 382)
_handle_mini_quiz(s, gf) ==
    CASE ~hasattr("quiz_in_progress") ->
        LET response == generate_response(s, "quiz", gf, 379,
                                          <<"handler:mini_quiz", "create_quiz">>) IN
        IF response.raised THEN response
        ELSE Raised(s, "ValueError", 382, response.steps)

ChunkIds(chunks) == [i \in 1..Len(chunks) |-> chunks[i].chunk_id]

\* "\n".join of the texts of the chunks from the i-th on
RECURSIVE JoinTexts(_, _)
JoinTexts(chunks, i) ==
    IF i > Len(chunks) THEN ""
    ELSE IF i = Len(chunks) THEN chunks[i].text
    ELSE chunks[i].text \o "\n" \o JoinTexts(chunks, i + 1)

\* the answer the generator gives to a question with the context
Answer(context) == "answer:" \o context

\* the outcome of a handler that called the content search
Searched(found, c) == [c EXCEPT !.searched = IF found.fault THEN "fault" ELSE "ok"]

\* a user_question handler that searches after it has generated the answer
_handle_user_question_late_search(s, found, gf) ==
    LET response == generate_response(s, Answer(JoinTexts(found.results, 1)), gf, 398,
                                      <<"handler:user_question">>) IN
    Searched(found,
        IF response.raised THEN response
        ELSE Returned(s, HandlerDict(response.dict.response, "user_question",
                                     ChunkIds(found.results)),
                      response.steps \o <<"fetch">>))

\* _handle_user_question; found: what search_topic_content returned
_handle_user_question(s, found, gf) ==
    LET response == generate_response(s, Answer(JoinTexts(found.results, 1)), gf, 398,
                                      <<"handler:user_question", "fetch">>) IN
    Searched(found,
        IF response.raised THEN response
        ELSE Returned(s, HandlerDict(response.dict.response, "user_question",
                                     ChunkIds(found.results)),
                      response.steps))

\* _handle_general_interaction
_handle_general_interaction(s, gf) ==
    Prefixed(<<"handler:general">>, _handle_progressive_recap(s, gf))

\* the response _process_revision_flow makes of a handler's exception
GenericDict ==
    HandlerDict("I encountered an issue", "general", <<>>)

\* flow_config["stage_handlers"].get(current_stage, general)
RunHandler(current_stage, s, user_query, found, gf) ==
    CASE current_stage = "kickoff_response"  -> _handle_kickoff_response(s, user_query, gf)
      [] current_stage = "progressive_recap" -> _handle_progressive_recap(s, gf)
      [] current_stage = "engaging_question" -> _handle_engaging_question(s, gf)
      [] current_stage = "mini_quiz"         -> _handle_mini_quiz(s, gf)
      [] current_stage = "user_question"     -> _handle_user_question(s, found, gf)
      [] current_stage = "progress_check"    -> _handle_progress_check(s, gf)
      [] current_stage = "quiz_feedback"     -> _evaluate_quiz_answers(s, gf)
      [] OTHER                               -> _handle_general_interaction(s, gf)

\* a faulty variant of CatchHandlerFault: the handler's exception goes on to the caller
CatchHandlerFault_reraising(h) == h

\* the except clause of _process_revision_flow: what a handler's exception becomes
CatchHandlerFault(h) ==
    IF h.raised
    THEN [h EXCEPT !.raised = FALSE, !.exc = "", !.line = 0, !.dict = GenericDict]
    ELSE h

\* the try statement of _process_revision_flow around the handler's outcome h
TryHandler(current_stage, h) ==
    [CatchHandlerFault(h) EXCEPT !.steps = <<"classify:" \o current_stage>> \o @,
                                 !.thrown = h.exc]

\* _process_revision_flow from the classified stage on
DispatchStage(current_stage, s, user_query, found, gf) ==
    TryHandler(current_stage, RunHandler(current_stage, s, user_query, found, gf))

\* _process_revision_flow
_process_revision_flow(s, user_query, found, gf) ==
    DispatchStage(_determine_stage_from_config(s.conversation_count, user_query),
                  s, user_query, found, gf)

----------------------------------------------------------------------------
(* The durable store (the revision sessions) *)

SessionIds == {"A", "B"}

NoSession == [session_id |-> ""]

\* no snapshot and no turn record of a session id.  keys: the fields the snapshot
\* document holds; a field that is absent has a filler value
NoDoc ==
    [exists |-> FALSE, keys |-> {}, conversation_count |-> -1, current_stage |-> "",
     current_chunk_index |-> -1, concepts_covered |-> <<>>, conversation_history |-> <<>>]

\* progress_data of _save_conversation_turn.  The cursor is
\* getattr(session_state, 'current_chunk_index', 0): the default.
ProgressWrite(s, stage) ==
    [op |-> "update",
     fields |-> {"conversation_count", "current_stage", "current_chunk_index",
                 "concepts_covered"},
     conversation_count |-> s.conversation_count,
     current_stage |-> stage,
     current_chunk_index |-> getattr("current_chunk_index", 0),
     concepts_covered |-> s.key_concepts_covered,
     turn |-> -1, stage |-> ""]

\* turn_data of _save_conversation_turn
TurnWrite(s, stage) ==
    [op |-> "push",
     fields |-> {},
     conversation_count |-> -1, current_stage |-> "", current_chunk_index |-> -1,
     concepts_covered |-> <<>>,
     turn |-> s.conversation_count, stage |-> stage]

\* one write reaching the store.  update_session_progress is an upsert of the
\* snapshot keyed by the session id: it sets the fields it names, on a new
\* document when there is none.  save_conversation_turn appends to the turn log
\* of the session id, which is independent of the snapshot.
ApplyWrite(doc, w) ==
    IF w.op = "push"
    THEN [doc EXCEPT !.conversation_history = Append(@, [turn |-> w.turn, stage |-> w.stage])]
    ELSE [doc EXCEPT !.exists = TRUE,
                     !.keys = @ \cup {"session_id"} \cup w.fields,
                     !.conversation_count = w.conversation_count,
                     !.current_stage = w.current_stage,
                     !.current_chunk_index = w.current_chunk_index,
                     !.concepts_covered = w.concepts_covered]

\* the writes of one call, in order; lost: the positions of the writes that
\* fault (the client logs the fault and returns)
RECURSIVE ApplyWrites(_, _, _, _)
ApplyWrites(doc, writes, i, lost) ==
    IF i > Len(writes) THEN doc
    ELSE ApplyWrites(IF i \in lost THEN doc ELSE ApplyWrite(doc, writes[i]),
                     writes, i + 1, lost)

\* the keys _restore_session_state reads with session_data[...], with the lines
\* of the reads
RequiredKeys ==
    << [key |-> "session_id", line |-> 522], [key |-> "topic", line |-> 523],
       [key |-> "student_id", line |-> 524], [key |-> "started_at", line |-> 526] >>

\* _restore_session_state: a required key that the snapshot does not hold is a
\* KeyError; with all of them the object is built and the assignment of
\* current_chunk_index raises (line 536).  No session is returned.
_restore_session_state(session_data) ==
    LET missing == {i \in 1..Len(RequiredKeys) : RequiredKeys[i].key \notin session_data.keys}
    IN  CASE missing # {} ->
                Raised(NoSession, "KeyError",
                       RequiredKeys[CHOOSE i \in missing : \A j \in missing : i <= j].line,
                       <<"restore">>)
          [] missing = {} /\ ~hasattr("current_chunk_index") ->
                Raised(NoSession, "ValueError", 536, <<"restore">>)

\* _save_conversation_turn: the turn record and the progress update
_save_conversation_turn(r) ==
    [r EXCEPT !.steps = @ \o <<"persist_turn">>,
              !.writes = @ \o << TurnWrite(r.s, r.dict.current_stage),
                                 ProgressWrite(r.s, r.dict.current_stage) >>]

\* response_data.update({...}) of continue_revision: building the argument reads
\* session_state.max_conversations (line 109), which the object does not have;
\* response_data is left as the flow returned it
WithMetadata(r) ==
    CASE ~hasattr("max_conversations") ->
        [r EXCEPT !.raised = TRUE, !.exc = "AttributeError", !.line = 109]

\* a counter update that opens the session again
CountTurn_reopening(s) == [s EXCEPT !.conversation_count = @ + 1, !.is_complete = FALSE]

\* the counter update of continue_revision (line 91)
CountTurn(s) == [s EXCEPT !.conversation_count = @ + 1]

\* continue_revision after _process_revision_flow (lines 103 to 113): an
\* exception of the flow goes on to the caller; otherwise the save, then the
\* metadata
SaveAndReturn(response_data) ==
    IF response_data.raised THEN response_data
    ELSE WithMetadata(_save_conversation_turn(response_data))

\* a continuation that records the turn of a manual end as well
ContinueCounted_recording_end(s, user_query, found, gf) ==
    IF _should_end_session(user_query)
    THEN [_complete_session(s) EXCEPT !.writes = <<TurnWrite(s, "complete"),
                                                    ProgressWrite(s, "complete")>>]
    ELSE SaveAndReturn(_process_revision_flow(s, user_query, found, gf))

\* continue_revision from the counter update on
ContinueCounted(s, user_query, found, gf) ==
    IF _should_end_session(user_query)
    THEN _complete_session(s)
    ELSE SaveAndReturn(_process_revision_flow(s, user_query, found, gf))

\* a continue_revision that turns away a complete session without counting the turn
continue_revision_closed(s0, user_query, found, gf) ==
    IF s0.is_complete
    THEN Raised(s0, "AttributeError", 109, <<>>)
    ELSE ContinueCounted(CountTurn(s0), user_query, found, gf)

\* continue_revision on the session it resolved
continue_revision(s0, user_query, found, gf) ==
    ContinueCounted(CountTurn(s0), user_query, found, gf)

\* the dictionary continue_revision returns for an unknown session id
NotFoundDict ==
    [NoDict EXCEPT !.keys = {"response", "is_session_complete"},
                   !.response = "Session not found. Please start a new revision session."]

----------------------------------------------------------------------------
(* Inputs *)

\* what the content collection holds for the topic: n chunks
NumStr(i) == ToString(i)
DistinctChunks(n) == [i \in 1..n |-> Chunk("c" \o NumStr(i), "k" \o NumStr(i) \o " is a b")]

ContentChoices(max) == {DistinctChunks(n) : n \in 0..max}

Topics == {"nutrition", "Biology"}

\* utterances: none, plain ones, questions, manual ends
Queries == {None} \cup {Some(text) : text \in Texts}
ShortQueries == {None, Some("ok"), Some("how"), Some("end session")}
FlowQueries == {Some("ok"), Some("how"), Some("end session")}

IsPlain(q) == ~_should_end_session(q) /\ ~_has_question_indicators(q)

\* search_topic_content(topic, query, limit): the first limit chunks that matched
\* (by text search, else by regular expression), [] when the store raises
search_topic_content(matched, limit, fault) ==
    [fault |-> fault,
     results |-> IF fault THEN <<>> ELSE SubSeq(matched, 1, Min(limit, Len(matched)))]

\* the outcome of a search that matched nothing
NoMatch == search_topic_content(<<>>, 3, FALSE)

\* the topic the chunks of the content collection are stored under: the
\* queries filter by topic (lines 52 and 65), a session of another topic finds
\* no chunk
ContentTopic == "nutrition"

\* what a search of the chunks of topic returns when the store answers: nothing
\* when neither the text search nor the regular expression matches a chunk of
\* the topic, else the first limit chunks that match
SearchResults(topic, limit) ==
    {search_topic_content(<<>>, limit, FALSE)}
        \cup (IF topic = ContentTopic THEN {search_topic_content(content, limit, FALSE)}
              ELSE {})

\* what a search can do: return its results, or raise in the store
SearchOutcomes(topic, limit) ==
    SearchResults(topic, limit) \cup {search_topic_content(<<>>, limit, TRUE)}

----------------------------------------------------------------------------
(* State *)

NoResp == [kind |-> "none", exc |-> "", line |-> 0, dict |-> NoDict]

\* no call.  found: the call resolved a session and counted the turn; pre: that
\* session before the call; stage: what the classifier made of the turn;
\* response_data: the dictionary the flow handed to continue_revision;
\* lost: the durable writes of the call that faulted
NoCall ==
    [op |-> "none", sid |-> "", query |-> None, found |-> FALSE, pre |-> NoSession,
     stage |-> "", steps |-> <<>>, thrown |-> "", searched |-> "no",
     response_data |-> NoDict, lost |-> {}, restoring |-> FALSE]
NoProbe == [count |-> -1, query |-> None, stage |-> "", ends |-> FALSE, done |-> FALSE]

\* no call suspended.  phase: 1 while a continue_revision call waits for its
\* generator's result; query, found: the utterance of that call and what its
\* content search returned; s0: the session the call resolved, before it counted
\* the turn
NoFlight ==
    [phase |-> 0, query |-> None, found |-> NoMatch, s0 |-> NoSession]

InCache(sid) == cache[sid].session_id # ""

Idle ==
    /\ cache = [sid \in SessionIds |-> NoSession]
    /\ db = [sid \in SessionIds |-> NoDoc]
    /\ resp = NoResp
    /\ call = NoCall
    /\ ncont = [sid \in SessionIds |-> -1]
    /\ quizzed = [sid \in SessionIds |-> FALSE]
    /\ restarted = FALSE
    /\ nodd = 0
    /\ faulted = FALSE
    /\ flight = [sid \in SessionIds |-> NoFlight]
    /\ nstart = 0
    /\ nturn = 0

\* the content store is empty for the topic or holds MaxSpecChunks chunks
Init ==
    /\ content \in {DistinctChunks(0), DistinctChunks(MaxSpecChunks)}
    /\ Idle
    /\ probe = NoProbe

----------------------------------------------------------------------------
(* The API *)

\* a store that keeps one session for all ids
PutSession_shared(c, sid, s) == [x \in DOMAIN c |-> s]

\* self.session_states[session_id] = session_state, and the assignments to the
\* fields of that session object
PutSession(c, sid, s) == [c EXCEPT ![sid] = s]

\* _initialize_topic_content: the two reads of the content store (lines 117,
\* 118), then the assignment of concept_chunks raises (line 119)
_initialize_topic_content(s) ==
    CASE ~hasattr("concept_chunks") -> Raised(s, "ValueError", 119, <<"fetch", "fetch_chunks">>)

\* the response of an API call with outcome r
Response(r) ==
    IF r.raised THEN [kind |-> "raised", exc |-> r.exc, line |-> r.line, dict |-> NoDict]
    ELSE [kind |-> "returned", exc |-> "", line |-> 0, dict |-> r.dict]

\* the callers make the calls on one session id one after the other: no call on
\* sid begins while a continue_revision call on sid is suspended
Serialized(sid) == flight[sid].phase = 0

\* a call part with n collaborator faults: a behaviour has at most one
Faults(n) ==
    /\ n <= 1 /\ (n = 1 => ~faulted)
    /\ faulted' = (faulted \/ n = 1)

\* start_revision_session(topic, student_id, session_id), on a session id that
\* is new or in use.  The session is built and put in the cache (line 69), in the
\* place of the session the id had, before _initialize_topic_content raises; the
\* await of the kick-off text (75), the initial save (78) and the return (80)
\* are not reached: the durable document of the id stays as it is.
start_revision_session(sid, topic) ==
    LET topic_config == get_topic_config(topic)
        session_state == NewSession(sid, topic, topic_config)
        r == _initialize_topic_content(session_state)
    IN
    /\ Serialized(sid)
    /\ cache' = PutSession(cache, sid, r.s)
    /\ ncont' = [ncont EXCEPT ![sid] = 0]
    /\ quizzed' = [quizzed EXCEPT ![sid] = FALSE]
    /\ nstart' = nstart + 1
    /\ flight' = [flight EXCEPT ![sid] = NoFlight]
    /\ call' = [NoCall EXCEPT !.op = "start", !.sid = sid, !.found = TRUE, !.steps = r.steps]
    /\ resp' = Response(r)
    /\ UNCHANGED <<content, db, restarted, faulted, probe, nturn>>

\* a quiz is open on the session when a mini_quiz turn has generated one and no
\* turn has evaluated a quiz since
QuizOpenAfter(open, r) ==
    IF "handler:quiz_feedback" \in {r.steps[i] : i \in 1..Len(r.steps)} THEN FALSE
    ELSE IF /\ "create_quiz" \in {r.steps[i] : i \in 1..Len(r.steps)}
            /\ r.thrown # "GeneratorError"
    THEN TRUE
    ELSE open

\* the call reaches a generator call: its outcome when the generator faults shows it
HasGeneratorCall(r1) == r1.thrown = "GeneratorError"

\* the continue_revision call with user_query on session s0 searches the content store
Searches(s0, user_query) == continue_revision(s0, user_query, NoMatch, FALSE).searched # "no"

\* the end of a continue_revision call that resolved session s0 and had outcome
\* r: the session as the call leaves it, the durable writes that were not lost,
\* the response to the caller
CommitTurn(sid, user_query, lost, s0, r) ==
    LET classified == IF _should_end_session(user_query) THEN ""
                      ELSE _determine_stage_from_config(r.s.conversation_count, user_query)
    IN
    \* the input names faults of writes this turn makes
    /\ lost \subseteq 1..Len(r.writes)
    /\ cache' = PutSession(cache, sid, r.s)
    /\ db' = [db EXCEPT ![sid] = ApplyWrites(@, r.writes, 1, lost)]
    /\ resp' = Response(r)
    /\ call' = [op |-> "continue", sid |-> sid, query |-> user_query, found |-> TRUE,
                pre |-> s0, stage |-> classified, steps |-> r.steps,
                thrown |-> r.thrown, searched |-> r.searched, response_data |-> r.dict,
                lost |-> lost, restoring |-> FALSE]
    /\ quizzed' = [quizzed EXCEPT ![sid] = QuizOpenAfter(@, r)]
    /\ UNCHANGED <<content, restarted, probe, nstart>>

\* continue_revision on a cached session, for a turn that reaches no generator
\* call (a manual end, or a handler that raises before its generator call): the
\* call runs from its beginning to its end
WholeTurn(sid, user_query, lost) ==
    /\ ~HasGeneratorCall(continue_revision(cache[sid], user_query, NoMatch, TRUE))
    /\ Faults(Cardinality(lost))
    /\ CommitTurn(sid, user_query, lost, cache[sid],
                  continue_revision(cache[sid], user_query, NoMatch, FALSE))
    /\ flight' = [flight EXCEPT ![sid] = NoFlight]
    /\ ncont' = [ncont EXCEPT ![sid] = @ + 1]
    /\ nturn' = nturn + 1

\* continue_revision on a cached session up to the await of its generator call
\* (line 353, 379 or 398): the turn is counted on the session object (line 91)
\* and the content is searched (395); nothing is written and the caller has no
\* response
BeginTurn(sid, user_query, found) ==
    LET r1 == continue_revision(cache[sid], user_query, found, TRUE) IN
    /\ HasGeneratorCall(r1)
    /\ Faults(IF r1.searched = "fault" THEN 1 ELSE 0)
    /\ cache' = PutSession(cache, sid, r1.s)
    /\ flight' = [flight EXCEPT ![sid] = [@ EXCEPT !.phase = 1, !.query = user_query,
                                                   !.found = found, !.s0 = cache[sid]]]
    /\ ncont' = [ncont EXCEPT ![sid] = @ + 1]
    /\ nturn' = nturn + 1
    /\ call' = [NoCall EXCEPT !.op = "begin", !.sid = sid, !.query = user_query]
    /\ UNCHANGED <<content, db, resp, quizzed, restarted, probe, nstart>>

\* a suspended continue_revision call gets its generator's result (gf: the
\* generator's exception) and runs to its end
ResumeTurn(sid, gf, lost) ==
    LET f == flight[sid] IN
    /\ f.phase = 1
    /\ Faults((IF gf THEN 1 ELSE 0) + Cardinality(lost))
    /\ CommitTurn(sid, f.query, lost, f.s0, continue_revision(f.s0, f.query, f.found, gf))
    /\ flight' = [flight EXCEPT ![sid] = NoFlight]
    /\ UNCHANGED <<ncont, nturn>>

\* continue_revision on a session id that is not cached and has a snapshot:
\* _restore_session_state raises inside _get_or_restore_session (line 184),
\* before the cache is written (185) and before the turn is counted (91)
RestoreRaises(sid, user_query, r) ==
    /\ resp' = Response(r)
    /\ call' = [NoCall EXCEPT !.op = "continue", !.sid = sid, !.query = user_query,
                              !.steps = r.steps, !.restoring = TRUE]
    /\ UNCHANGED <<content, cache, db, ncont, quizzed, restarted, faulted, probe, flight,
                   nstart, nturn>>

\* continue_revision on a session id that is in neither store
NotFound(sid, user_query) ==
    /\ resp' = Response(Returned(NoSession, NotFoundDict, <<>>))
    /\ call' = [NoCall EXCEPT !.op = "continue", !.sid = sid, !.query = user_query]
    /\ UNCHANGED <<content, cache, db, ncont, quizzed, restarted, faulted, probe, flight,
                   nstart, nturn>>

\* continue_revision on a cached session, from its beginning to its end or to
\* the await of its generator call
ContinueCached(sid, user_query, found, lost) ==
    \/ found = NoMatch /\ WholeTurn(sid, user_query, lost)
    \/ lost = {} /\ BeginTurn(sid, user_query, found)

\* continue_revision that opens a session for an id it does not know
ContinueRevision_creating(sid, user_query, found, lost) ==
    /\ Serialized(sid)
    /\ IF InCache(sid)
       THEN ContinueCached(sid, user_query, found, lost)
       ELSE IF db[sid].exists
       THEN RestoreRaises(sid, user_query, _restore_session_state(db[sid]))
       ELSE /\ resp' = Response(Returned(NoSession, NotFoundDict, <<>>))
            /\ call' = [NoCall EXCEPT !.op = "continue", !.sid = sid, !.query = user_query]
            /\ cache' = PutSession(cache, sid, NewSession(sid, "", get_topic_config("")))
            /\ UNCHANGED <<content, db, ncont, quizzed, restarted, faulted, probe, flight,
                           nstart, nturn>>

\* continue_revision(session_id, user_query), to its end or to the await of its
\* generator call.  found: what the content search returns; lost: which durable
\* writes of the turn fault
ContinueRevision(sid, user_query, found, lost) ==
    /\ Serialized(sid)
    /\ IF InCache(sid)
       THEN ContinueCached(sid, user_query, found, lost)
       ELSE IF db[sid].exists
       THEN RestoreRaises(sid, user_query, _restore_session_state(db[sid]))
       ELSE NotFound(sid, user_query)

\* the process restarts: a new ProgressiveRevisionAgent starts with an empty
\* session_states; the calls that were suspended end with the process; the
\* durable store keeps its documents.  The call record keeps a session the
\* restart evicted, as it was.
Restart ==
    /\ ~restarted
    /\ \E sid \in SessionIds :
          /\ InCache(sid)
          /\ call' = [NoCall EXCEPT !.op = "restart", !.sid = sid, !.pre = cache[sid]]
    /\ cache' = [sid \in SessionIds |-> NoSession]
    /\ flight' = [sid \in SessionIds |-> NoFlight]
    /\ ncont' = [sid \in SessionIds |-> -1]
    /\ quizzed' = [sid \in SessionIds |-> FALSE]
    /\ restarted' = TRUE
    /\ resp' = NoResp
    /\ UNCHANGED <<content, db, faulted, probe, nstart, nturn>>

----------------------------------------------------------------------------
(* Spec: two sessions, every utterance kind and every fault placement, a few turns *)

StartAny ==
    \E sid \in SessionIds, topic \in {"nutrition"} :
        /\ nstart < MaxStarts
        /\ start_revision_session(sid, topic)
        /\ UNCHANGED nodd

\* the inputs a call reads: a turn that searches gets one of the outcomes of a
\* search.  The domains leave out the fault placements the fault budget
\* rejects: a second fault in the behaviour.
ContinueAny ==
    \E sid \in SessionIds :
        /\ InCache(sid)
        /\ nturn < MaxTurns
        /\ \E q \in ShortQueries :
           \E found \in IF Searches(cache[sid], q) THEN SearchOutcomes(cache[sid].topic, 3)
                        ELSE {NoMatch} :
           \E lost \in IF faulted THEN {{}} ELSE {{}, {1}, {2}} :
               /\ ContinueRevision(sid, q, found, lost)
               /\ UNCHANGED nodd

\* the generator answers a suspended call, or faults
ResumeAny ==
    \E sid \in SessionIds, gf \in IF faulted THEN {FALSE} ELSE BOOLEAN :
    \E lost \in IF faulted \/ gf THEN {{}} ELSE {{}, {1}, {2}} :
        /\ ResumeTurn(sid, gf, lost)
        /\ UNCHANGED nodd

\* a continuation on a session id that is not cached and has a snapshot
ContinueEvicted ==
    \E sid \in SessionIds, q \in {Some("ok"), Some("end session")} :
        /\ ~InCache(sid) /\ db[sid].exists
        /\ ContinueRevision(sid, q, NoMatch, {})
        /\ UNCHANGED nodd

\* a continuation on a session id that is in neither store
ContinueUnknown ==
    \E sid \in SessionIds, q \in {Some("ok")} :
        /\ ~InCache(sid) /\ ~db[sid].exists
        /\ ContinueRevision(sid, q, NoMatch, {})
        /\ UNCHANGED nodd

RestartAny == Restart /\ UNCHANGED nodd

Next ==
    StartAny \/ ContinueAny \/ ResumeAny \/ ContinueEvicted \/ ContinueUnknown \/ RestartAny

Spec == Init /\ [][Next]_vars

----------------------------------------------------------------------------
(* SpecFlow: the turn schedule of one session id without faults or process *)
(* restarts, with at most MaxOdd utterances that are a question or a       *)
(* manual end                                                              *)

InitFlow ==
    /\ content \in ContentChoices(MaxChunks)
    /\ Idle
    /\ probe = NoProbe

StartFlow ==
    \E topic \in Topics :
        /\ nstart < MaxFlowStarts
        /\ start_revision_session("A", topic)
        /\ UNCHANGED nodd

\* a turn that searches gets one of the results a search of the session's topic
\* can return
ContinueFlow ==
    \E q \in FlowQueries :
        /\ InCache("A")
        /\ ncont["A"] < MaxFlowTurns
        /\ nodd + (IF IsPlain(q) THEN 0 ELSE 1) <= MaxOdd
        /\ nodd' = nodd + (IF IsPlain(q) THEN 0 ELSE 1)
        /\ \E found \in IF Searches(cache["A"], q) THEN SearchResults(cache["A"].topic, 3)
                        ELSE {NoMatch} :
               ContinueRevision("A", q, found, {})

ResumeFlow == ResumeTurn("A", FALSE, {}) /\ UNCHANGED nodd

NextFlow == StartFlow \/ ContinueFlow \/ ResumeFlow

SpecFlow == InitFlow /\ [][NextFlow]_vars

----------------------------------------------------------------------------
(* SpecClassify: the stage classifier and the manual-end test applied to   *)
(* a turn counter and an utterance                                         *)

InitClassify ==
    /\ content = <<>>
    /\ Idle
    /\ probe \in {[NoProbe EXCEPT !.count = c, !.query = q] : c \in 0..MaxCount, q \in Queries}

Classify ==
    /\ ~probe.done
    /\ probe' = [probe EXCEPT !.stage = _determine_stage_from_config(probe.count, probe.query),
                              !.ends = _should_end_session(probe.query),
                              !.done = TRUE]
    /\ UNCHANGED <<content, cache, db, resp, call, ncont, quizzed, restarted, nodd, faulted,
                   flight, nstart, nturn>>

NextClassify == Classify

SpecClassify == InitClassify /\ [][NextClassify]_vars

----------------------------------------------------------------------------
(* SpecConfig: get_topic_config applied to a topic name *)

\* topic names: table keys in several spellings, parts of keys, names that hold a
\* key or two, names that match nothing; with and without white space and extra
\* words
TopicCores ==
    {"photosynthesis", "Photosynthesis", "RESPIRATION", "cell_structure", "nutrition",
     "Nutrition", "photo", "tion", "s", "cell", "unknown_topic_xyz", "biology", "",
     "respiration and nutrition", "cell structure"}
TopicNames ==
    {pre \o core \o suf : pre \in {"", " ", "\r", "My "}, core \in TopicCores,
                          suf \in {"", " ", "\f\n", " 101"}}

NoConfig == [max_conversations |-> -1, completion_threshold |-> -1]

InitConfig ==
    /\ content = <<>>
    /\ Idle
    /\ probe \in {[topic |-> t, config |-> NoConfig, done |-> FALSE] : t \in TopicNames}

ResolveConfig ==
    /\ ~probe.done
    /\ probe' = [probe EXCEPT !.config = get_topic_config(probe.topic), !.done = TRUE]
    /\ UNCHANGED <<content, cache, db, resp, call, ncont, quizzed, restarted, nodd, faulted,
                   flight, nstart, nturn>>

NextConfig == ResolveConfig

SpecConfig == InitConfig /\ [][NextConfig]_vars

----------------------------------------------------------------------------
(* SpecPair: the calls of two session ids interleaved at their suspension  *)
(* points, without faults or process restarts                              *)

InitPair ==
    /\ content \in {DistinctChunks(n) : n \in 0..MaxPairChunks}
    /\ Idle
    /\ probe = NoProbe

\* the topic the sessions of an id are started with under SpecPair
PairTopic == [sid \in SessionIds |-> IF sid = "A" THEN "nutrition" ELSE "Biology"]

StartPair ==
    \E sid \in SessionIds :
        /\ nstart < MaxPairStarts
        /\ start_revision_session(sid, PairTopic[sid])
        /\ UNCHANGED nodd

\* a turn that searches gets one of the results a search of its session's topic
\* can return
ContinuePair ==
    \E sid \in SessionIds, q \in FlowQueries :
        /\ InCache(sid)
        /\ nturn < MaxPairTurns
        /\ \E found \in IF Searches(cache[sid], q) THEN SearchResults(cache[sid].topic, 3)
                        ELSE {NoMatch} :
               ContinueRevision(sid, q, found, {})
        /\ UNCHANGED nodd

ResumePair ==
    \E sid \in SessionIds :
        /\ ResumeTurn(sid, FALSE, {})
        /\ UNCHANGED nodd

NextPair == StartPair \/ ContinuePair \/ ResumePair

SpecPair == InitPair /\ [][NextPair]_vars

----------------------------------------------------------------------------
(* Properties of the stage classifier (SpecClassify) *)

\* the utterance contains "how"
ContainsHow(q) == q.tag = "Some" /\ Contains(q.text, "how")

\* C3 as stated: for any counter value, an utterance containing "how" resolves to
\* user_question.  The counter 1 refutes it: the kickoff rule is first.
QuestionInterruptAtAnyCount ==
    probe.done /\ ContainsHow(probe.query) => probe.stage = "user_question"

\* C3, amended: an utterance containing "how" resolves to user_question, overriding
\* the numeric rules, for every counter value other than 1; at counter 1 it
\* resolves to kickoff_response.
QuestionInterruptAfterKickoff ==
    probe.done /\ ContainsHow(probe.query) =>
        probe.stage = IF probe.count = 1 THEN "kickoff_response" ELSE "user_question"

\* a question at a counter that matches the mini_quiz and the engaging_question rule
QuestionInterruptReached ==
    /\ probe.done /\ probe.query = Some("how") /\ probe.count = 15
    /\ probe.stage = "user_question"

\* C4: with conversation_count = 15 and an utterance without a question indicator
\* the classifier resolves to mini_quiz, not engaging_question.
StageRulePriority ==
    probe.done /\ probe.count = 15 /\ ~_has_question_indicators(probe.query) =>
        probe.stage = "mini_quiz"

StageRulePriorityReached ==
    /\ probe.done /\ probe.count = 15 /\ probe.query = Some("ok")
    /\ probe.stage = "mini_quiz"

\* the reference table of the classifier: the rules in their fixed order, written out
ReferenceStage(count, q) ==
    IF count = 1 THEN "kickoff_response"
    ELSE IF q.tag = "Some" /\ \E k \in {"?", "what", "why", "how", "explain", "tell me",
                                          "help", "can you"} : Contains(Lower(q.text), k)
         THEN "user_question"
    ELSE IF count > 5 /\ count % 5 = 0 THEN "mini_quiz"
    ELSE IF count > 2 /\ count % 3 = 0 THEN "engaging_question"
    ELSE IF count > 8 /\ count % 8 = 0 THEN "progress_check"
    ELSE "progressive_recap"

\* C5: for every counter and utterance the classifier returns the stage of the first
\* rule of the reference table whose predicate is true.
FirstMatchWins ==
    probe.done => probe.stage = ReferenceStage(probe.count, probe.query)

\* a counter that matches the engaging_question and the progress_check rule
FirstMatchWinsReached ==
    /\ probe.done /\ probe.count = 24 /\ probe.query = Some("deep dive")
    /\ probe.stage = "engaging_question"

\* the stages of the rule table
ClassifierStages ==
    {"kickoff_response", "user_question", "mini_quiz", "engaging_question",
     "progress_check", "progressive_recap"}

\* a session with the probed counter, for the dispatch of the probed stage
ProbeSession ==
    [NewSession("A", "nutrition", get_topic_config("nutrition"))
        EXCEPT !.conversation_count = probe.count]

\* the outcome of dispatching stage on the probed session has not run the general
\* handler, and carries the label general only when the handler raised
GeneralOnlyAsFaultLabel(r) ==
    /\ "handler:general" \notin {r.steps[i] : i \in 1..Len(r.steps)}
    /\ r.dict.current_stage = "general" => r.thrown # ""

\* C28: the classifier's result is one of kickoff_response, user_question,
\* mini_quiz, engaging_question, progress_check, progressive_recap, never general
\* and never quiz_feedback; dispatching it does not run the general handler, and
\* general appears only as the label of the response to a handler's fault.
ClassifierNeverGeneral ==
    probe.done =>
        /\ probe.stage \in ClassifierStages
        /\ probe.stage \notin {"general", "quiz_feedback"}
        /\ \A gf \in BOOLEAN :
              GeneralOnlyAsFaultLabel(DispatchStage(probe.stage, ProbeSession, probe.query,
                                                    NoMatch, gf))

\* an utterance with a question word at a counter no numeric rule matches went to
\* the question handler, whose response is labelled general when the generator
\* faults and user_question when it does not
ClassifierNeverGeneralReached ==
    /\ probe.done /\ probe.count = 7 /\ probe.query = Some("how")
    /\ probe.stage = "user_question"
    /\ DispatchStage(probe.stage, ProbeSession, probe.query, NoMatch, TRUE).dict.current_stage
          = "general"
    /\ DispatchStage(probe.stage, ProbeSession, probe.query, NoMatch, FALSE).dict.current_stage
          = "user_question"

----------------------------------------------------------------------------
(* Properties of get_topic_config (SpecConfig) *)

\* the positions of the table whose key contains the name or is contained in it
PartialMatches(name) ==
    {i \in 1..Len(TOPIC_CONFIGURATIONS) :
        \/ Contains(name, TOPIC_CONFIGURATIONS[i].key)
        \/ Contains(TOPIC_CONFIGURATIONS[i].key, name)}

\* C16: get_topic_config returns, for the lowercased and trimmed topic name, the
\* table entry on exact match; otherwise the entry of the first table key, in
\* table order, that contains the name or is contained in it; otherwise the
\* defaults 25 and 15.  "Photosynthesis " resolves to 30 and 20,
\* "unknown_topic_xyz" to the defaults.
TopicConfigResolution ==
    probe.done =>
        LET name == Strip(Lower(probe.topic))
            T == TOPIC_CONFIGURATIONS
        IN  /\ \A i \in 1..Len(T) : T[i].key = name => probe.config = ConfigOf(T[i])
            /\ \A i \in PartialMatches(name) :
                   ( /\ \A j \in 1..Len(T) : T[j].key # name
                     /\ \A j \in PartialMatches(name) : i <= j )
                   => probe.config = ConfigOf(T[i])
            /\ PartialMatches(name) = {}
                   => probe.config = [max_conversations |-> 25, completion_threshold |-> 15]
            /\ probe.topic = "Photosynthesis "
                   => probe.config = [max_conversations |-> 30, completion_threshold |-> 20]
            /\ probe.topic = "unknown_topic_xyz"
                   => probe.config = [max_conversations |-> 25, completion_threshold |-> 15]

\* a name that is no key and is part of three keys resolved to the first of them
TopicConfigResolutionReached ==
    /\ probe.done /\ probe.topic = " s "
    /\ PartialMatches(Strip(Lower(probe.topic))) = {1, 2, 3}
    /\ probe.config = [max_conversations |-> 30, completion_threshold |-> 20]

----------------------------------------------------------------------------
(* Properties of the session API (Spec) *)

Steps(c) == {c.steps[i] : i \in 1..Len(c.steps)}

\* the last call was a continue_revision that resolved its session
FoundContinue == call.op = "continue" /\ call.found

\* the last call was a continue_revision that resolved its session and took the
\* manual-end path to _complete_session
ManualEndCall == FoundContinue /\ _should_end_session(call.query)

\* the session a continue_revision call hands to _complete_session or to a handler
CountedPre == [call.pre EXCEPT !.conversation_count = @ + 1]

\* C1: after start_revision_session and N calls of continue_revision that
\* resolved the session, its conversation_count is N, whatever the utterances,
\* the stages and the faults of the turns were, also while the N-th call waits
\* for its generator; every such call raises the counter by exactly 1.
CounterEqualsContinuations ==
    /\ \A sid \in SessionIds : InCache(sid) => cache[sid].conversation_count = ncont[sid]
    /\ \A sid \in SessionIds :
          flight[sid].phase = 1 =>
              cache[sid].conversation_count = flight[sid].s0.conversation_count + 1
    /\ FoundContinue =>
          cache[call.sid].conversation_count = call.pre.conversation_count + 1

\* a session counts its third turn, in which the generator faulted, after a
\* manual end and a turn whose handler raised
CounterEqualsContinuationsReached ==
    /\ FoundContinue /\ call.thrown = "GeneratorError"
    /\ ncont[call.sid] = 3 /\ cache[call.sid].conversation_count = 3
    /\ cache[call.sid].is_complete

\* C2: a continuation whose utterance contains "end session" goes to
\* _complete_session, leaves is_complete true, returns a response with
\* is_session_complete = true, and runs neither the classifier nor a stage handler.
ManualEndForcesCompletion ==
    FoundContinue /\ call.query.tag = "Some" /\ Contains(call.query.text, "end session") =>
        /\ "complete" \in Steps(call)
        /\ Steps(call) \subseteq {"complete", "generate", "persist_final"}
        /\ call.stage = ""
        /\ cache[call.sid].is_complete
        /\ resp.kind = "returned" /\ resp.dict.is_session_complete

\* a start_revision_session call on sid: it puts a new session under the id
StartOf(sid) == call.op = "start" /\ call.sid = sid

\* C6: once the is_complete flag of a session is true, no continue_revision
\* call (handler run, completion, restore) sets it back to false: it is true for
\* as long as that session is in the cache.
CompletionFlagNeverReverts ==
    [][\A sid \in SessionIds :
          (InCache(sid) /\ cache[sid].is_complete /\ cache'[sid] # NoSession /\ ~StartOf(sid)')
              => cache'[sid].is_complete]_vars

\* a complete session took an ordinary turn and is complete after it
CompletionFlagNeverRevertsReached ==
    /\ FoundContinue /\ call.pre.is_complete /\ ~_should_end_session(call.query)
    /\ call.stage = "progressive_recap"
    /\ cache[call.sid].is_complete

\* C7: a progressive_recap invoked when no chunk is left beyond the cursor (here:
\* the topic has no chunks at all) routes to progress_check.
CursorExhaustion ==
    ( /\ FoundContinue /\ "handler:progressive_recap" \in Steps(call)
      /\ Len(content) = 0 )
    => "handler:progress_check" \in Steps(call)

\* C9: every continue_revision call that resolved its session returns a response,
\* whichever collaborator faulted.  Stated here for the behaviours in which none
\* has faulted.
ContinuationAlwaysResponds ==
    FoundContinue /\ ~faulted => resp.kind = "returned"

\* the exception that left the last call was raised at one of the lines of a
\* stage handler
RaisedInHandler == resp.kind = "raised" /\ resp.line >= 277 /\ resp.line <= 460

\* C10: when the stage handler of a turn raised, _process_revision_flow turned the
\* exception into the generic response (current_stage general, is_session_complete
\* false, no sources), the turn is counted, and the handler's exception is not
\* what leaves the call.
HandlerFaultContained ==
    FoundContinue /\ call.thrown # "" =>
        /\ call.response_data.keys =
               {"response", "current_stage", "is_session_complete", "sources"}
        /\ call.response_data.current_stage = "general"
        /\ ~call.response_data.is_session_complete
        /\ call.response_data.sources = <<>>
        /\ cache[call.sid].conversation_count = call.pre.conversation_count + 1
        /\ ~RaisedInHandler

\* the generator faulted in a stage handler and the flow made the generic
\* response of it, which the turn record shows
HandlerFaultContainedReached ==
    /\ FoundContinue /\ call.thrown = "GeneratorError"
    /\ call.response_data.current_stage = "general"
    /\ cache[call.sid].conversation_count = call.pre.conversation_count + 1
    /\ Len(db[call.sid].conversation_history) > 0
    /\ db[call.sid].conversation_history[Len(db[call.sid].conversation_history)]
          = [turn |-> cache[call.sid].conversation_count, stage |-> "general"]

\* C11: a generator fault during a continuation turn leaves the session as it
\* was before the call apart from its counter (and last-interaction time): the
\* covered concepts and the completion flag are unchanged, and the session has
\* no other attribute.
GeneratorFaultLeavesSessionUnaffected ==
    FoundContinue /\ call.thrown = "GeneratorError" => cache[call.sid] = CountedPre

\* the generator faulted in the engaging question of a complete session
GeneratorFaultLeavesSessionUnaffectedReached ==
    /\ FoundContinue /\ call.thrown = "GeneratorError"
    /\ call.stage = "engaging_question"
    /\ call.pre.is_complete /\ cache[call.sid].is_complete
    /\ cache[call.sid].conversation_count = 3

\* C12: continue_revision on a session id that is in neither store returns the
\* "Session not found" response, creates no session, leaves the cache and every
\* durable document as they were, and counts no turn.
UnknownSessionRejected ==
    [][(call'.op = "continue" /\ ~InCache(call'.sid) /\ ~db[call'.sid].exists) =>
           /\ resp'.kind = "returned" /\ resp'.dict = NotFoundDict
           /\ cache' = cache /\ db' = db /\ ncont' = ncont
           /\ cache'[call'.sid] = NoSession /\ ~db'[call'.sid].exists]_vars

\* an unknown session id was continued while another session was in the cache
\* with its snapshot in the durable store
UnknownSessionRejectedReached ==
    /\ call.op = "continue" /\ ~call.found /\ ~call.restoring
    /\ resp.dict = NotFoundDict
    /\ \E sid \in SessionIds \ {call.sid} : InCache(sid) /\ db[sid].exists

\* C13: when the content store raises during the search of a question turn,
\* search_topic_content returns the empty list and _handle_user_question answers
\* with an empty context: the turn yields a response with current_stage
\* user_question and no sources.
SearchFaultAnswersWithoutContext ==
    FoundContinue /\ call.searched = "fault" =>
        /\ "handler:user_question" \in Steps(call)
        /\ call.thrown = "" /\ resp.kind = "returned"
        /\ resp.dict.response = "answer:"
        /\ resp.dict.current_stage = "user_question"
        /\ resp.dict.sources = <<>>

\* C14: a durable write that fails during a continuation turn neither aborts the
\* turn nor undoes the update in memory: the call returns its response and the
\* cached session has the counter and the covered concepts of the turn.
WriteFaultKeepsTurn ==
    FoundContinue /\ call.lost # {} =>
        /\ resp.kind = "returned"
        /\ cache[call.sid] = continue_revision(call.pre, call.query, NoMatch, FALSE).s

\* C17: start_revision_session creates a session with conversation_count 0,
\* is_complete false and no covered concepts, puts it in the cache under the
\* session id, persists an initial snapshot with a turn-0 record, and returns a
\* response with conversation_count 0, is_session_complete false and the
\* max_conversations and completion_threshold resolved for the topic.
StartCreatesFreshSession ==
    call.op = "start" =>
        LET s == cache[call.sid]
            doc == db[call.sid]
            cfg == get_topic_config(s.topic)
        IN  /\ InCache(call.sid)
            /\ s.session_id = call.sid
            /\ s.conversation_count = 0
            /\ ~s.is_complete /\ s.key_concepts_covered = <<>>
            /\ doc.exists /\ doc.conversation_count = 0
            /\ Len(doc.conversation_history) = 1 /\ doc.conversation_history[1].turn = 0
            /\ resp.kind = "returned"
            /\ resp.dict.session_id = call.sid
            /\ resp.dict.conversation_count = 0 /\ ~resp.dict.is_session_complete
            /\ resp.dict.max_conversations = cfg.max_conversations
            /\ resp.dict.completion_threshold = cfg.completion_threshold

\* C18: a session persisted after a turn, evicted from the cache and restored on
\* the next call is resolved with the counter, covered concepts and completion
\* flag it had before the eviction.
RestoreReconstructsSession ==
    [][( /\ call.op = "restart" /\ db[call.sid].exists
         /\ db[call.sid].conversation_count = call.pre.conversation_count
         /\ call'.op = "continue" /\ call'.sid = call.sid )
       => /\ call'.found
          /\ call'.pre.conversation_count = call.pre.conversation_count
          /\ call'.pre.key_concepts_covered = call.pre.key_concepts_covered
          /\ call'.pre.is_complete = call.pre.is_complete]_vars

\* the turn indices of a conversation history are strictly increasing
IncreasingTurns(history) ==
    \A i \in 1..(Len(history) - 1) : history[i].turn < history[i + 1].turn

\* the last call appended record to the history and brought the snapshot of
\* session s up to date, where old is the snapshot before the call
TurnPersisted(old, new, s, stage) ==
    /\ Len(new.conversation_history) = Len(old.conversation_history) + 1
    /\ SubSeq(new.conversation_history, 1, Len(old.conversation_history))
           = old.conversation_history
    /\ new.conversation_history[Len(new.conversation_history)]
           = [turn |-> s.conversation_count, stage |-> stage]
    /\ IncreasingTurns(new.conversation_history)
    /\ new.exists
    /\ {"conversation_count", "current_chunk_index", "concepts_covered"} \subseteq new.keys
    /\ new.conversation_count = s.conversation_count
    /\ new.current_chunk_index = 0
    /\ new.concepts_covered = s.key_concepts_covered

\* C19: every continue_revision call on a resolved session that is not a manual
\* end appends exactly one turn record, whose turn index is the session's new
\* counter and whose stage is the stage of the response the flow made for the
\* turn, and updates the snapshot with the new counter, the cursor and the
\* covered concepts; the records already in the log are unchanged and the turn
\* indices of the log are strictly increasing.  Stated for the calls whose
\* durable writes reach the store.
TurnRecordAppended ==
    [][( /\ call'.op = "continue" /\ call'.found /\ call'.lost = {}
         /\ ~_should_end_session(call'.query) )
       => TurnPersisted(db[call'.sid], db'[call'.sid], cache'[call'.sid],
                        call'.response_data.current_stage)]_vars

\* the fields of the response contract that every response carries
ContractFields ==
    {"response", "topic", "session_id", "conversation_count", "is_session_complete",
     "sources", "current_stage", "max_conversations", "completion_threshold"}

\* C20: every call of the lifecycle manager for a resolved session (a start, an
\* ordinary continuation, a completion on manual end, a turn whose handler
\* raised) returns a response that carries the fields response, topic,
\* session_id, conversation_count, is_session_complete, sources, current_stage,
\* max_conversations and completion_threshold.
ResponseCarriesContract ==
    call.op \in {"start", "continue"} /\ call.found =>
        /\ resp.kind = "returned"
        /\ ContractFields \subseteq resp.dict.keys

\* C22: the first continuation of a started session whose utterance is no manual
\* end is classified kickoff_response and its response reports current_stage
\* kickoff_response.
FirstTurnReportsKickoff ==
    ( /\ FoundContinue /\ ncont[call.sid] = 1 /\ call.pre.conversation_count = 0
      /\ ~_should_end_session(call.query) )
    => /\ call.stage = "kickoff_response"
       /\ resp.kind = "returned"
       /\ resp.dict.current_stage = "kickoff_response"

Positions(t, labels) == {i \in 1..Len(t) : t[i] \in labels}

AllBefore(t, first, then) ==
    \A i \in Positions(t, first), j \in Positions(t, then) : i < j

ClassifyStep == {"classify:" \o call.stage}
ContentReads == {"fetch", "fetch_chunks"}
DurableWrites == {"persist_turn", "persist_final"}

\* C24: within one continue_revision call, no read of the content store precedes
\* the classification, no generator call precedes the content fetch its prompt
\* uses, and no durable write of the turn precedes the generator's result; a call
\* that counts a turn and is no manual end classifies first.
StepsStrictlyOrdered ==
    /\ call.op = "continue" =>
          /\ AllBefore(call.steps, ClassifyStep, ContentReads)
          /\ Positions(call.steps, ContentReads) # {}
                => Positions(call.steps, ClassifyStep) # {}
          /\ AllBefore(call.steps, {"fetch"}, {"generate"})
          /\ AllBefore(call.steps, {"generate"}, DurableWrites)
    /\ (FoundContinue /\ call.stage # "") => Positions(call.steps, ClassifyStep) = {1}

\* a question turn searched the content, generated its answer and wrote the turn
StepsStrictlyOrderedReached ==
    /\ FoundContinue /\ call.stage = "user_question" /\ call.thrown = ""
    /\ call.steps = <<"classify:user_question", "handler:user_question", "fetch", "generate",
                      "persist_turn">>
    /\ Len(db[call.sid].conversation_history) > 0

\* C25: completing a session that is complete already leaves is_complete true and
\* the counter and the covered concepts as handed over and only regenerates the
\* summary: the call generates the conclusion and returns it; and the flag of a
\* session goes from false to true at most once: no call on the session lowers
\* it.
CompletionIdempotent ==
    [][ /\ (ManualEndCall' /\ call'.pre.is_complete) =>
               /\ cache'[call'.sid].is_complete
               /\ cache'[call'.sid] = CountedPre'
               /\ "generate" \in Steps(call')
               /\ resp'.kind = "returned"
        /\ \A sid \in SessionIds :
               ~(InCache(sid) /\ cache[sid].is_complete /\ ~StartOf(sid)'
                   /\ cache'[sid] # NoSession /\ ~cache'[sid].is_complete) ]_vars

\* C27: the kickoff turn of a topic that has chunks delivers chunk 0: it
\* generates the explanation of the first chunk and its response names that
\* chunk as its source, and the concept of the chunk is recorded.
ChunksDeliveredInCursorOrder ==
    ( /\ FoundContinue /\ call.stage = "kickoff_response"
      /\ Len(content) > 0 /\ ~faulted )
    => /\ "generate" \in Steps(call)
       /\ call.response_data.sources = <<content[1].chunk_id>>
       /\ Len(cache[call.sid].key_concepts_covered) = 1

\* session s with the flag as given
Flagged(s, flag) == [s EXCEPT !.is_complete = flag]

\* the last call left the session and took the steps that the same call on the
\* same session with is_complete false leaves and takes, the flag apart
AsOnActiveSession(r) ==
    /\ Flagged(r.s, TRUE) = cache[call.sid]
    /\ r.steps = call.steps
    /\ r.dict = call.response_data

\* C29: continue_revision does not look at is_complete: a call on a session that
\* is complete already counts the turn and goes through the manual-end test, the
\* classifier and a handler exactly as the same call on the session with the
\* flag false does; the session it leaves differs in the flag only.
CompleteSessionStillContinues ==
    (FoundContinue /\ call.pre.is_complete) =>
        /\ cache[call.sid].conversation_count = call.pre.conversation_count + 1
        /\ cache[call.sid].is_complete
        /\ call.stage = IF _should_end_session(call.query) THEN ""
                        ELSE _determine_stage_from_config(call.pre.conversation_count + 1,
                                                          call.query)
        /\ \E gf \in BOOLEAN, found \in SearchOutcomes(call.pre.topic, 3) :
              AsOnActiveSession(continue_revision(Flagged(call.pre, FALSE), call.query,
                                                  found, gf))

\* a complete session took a further turn, a question that was answered and
\* written to the turn log
CompleteSessionStillContinuesReached ==
    /\ FoundContinue /\ call.pre.is_complete
    /\ call.stage = "user_question"
    /\ call.response_data.current_stage = "user_question"
    /\ "persist_turn" \in Steps(call)
    /\ cache[call.sid].conversation_count = call.pre.conversation_count + 1

\* C30: with an empty chunk list, the first progressive_recap turn after the
\* kickoff reaches the progress check and completes the session.
EmptyTopicCompletesAtProgressCheck ==
    ( /\ FoundContinue /\ call.stage = "progressive_recap"
      /\ Len(content) = 0 /\ ~faulted )
    => /\ "handler:progress_check" \in Steps(call)
       /\ cache[call.sid].is_complete

\* C31: the manual-end path persists less than an ordinary turn: a manual-end
\* call appends no record to the turn log and leaves the snapshot's
\* conversation_count as the earlier turns wrote it, while the counter of the
\* cached session goes up by one: the snapshot's counter is the one the turn
\* before wrote, not the one in memory.
ManualEndPersistsLess ==
    [][ ManualEndCall' =>
            /\ db'[call'.sid].conversation_history = db[call'.sid].conversation_history
            /\ db'[call'.sid].conversation_count = db[call'.sid].conversation_count
            /\ cache'[call'.sid].conversation_count = cache[call'.sid].conversation_count + 1 ]_vars

\* a manual end after one ordinary turn: the snapshot's counter and the turn log
\* are those of the first turn while the session counts two
ManualEndPersistsLessReached ==
    /\ ManualEndCall
    /\ db[call.sid].exists
    /\ db[call.sid].conversation_count = 1
    /\ Len(db[call.sid].conversation_history) = 1
    /\ cache[call.sid].conversation_count = 2

----------------------------------------------------------------------------
(* Properties of the turn schedule (SpecFlow) *)

\* C8: in a run of utterances without question indicator and without end phrase,
\* the session is complete by the time its counter has reached the
\* completion_threshold of its topic.
CompletedByThreshold ==
    ( /\ nodd = 0 /\ InCache("A")
      /\ cache["A"].conversation_count >= get_completion_threshold(cache["A"].topic) )
    => cache["A"].is_complete

\* the last call ran _handle_progress_check
ProgressCheckCall == FoundContinue /\ "handler:progress_check" \in Steps(call)

\* the completion test as C26 states it, on the session the handler got: covered
\* concepts and turn counter of the session, the chunks of its topic, the
\* completion_threshold of its topic
StatedCompletionDue ==
    LET covered == Len(call.pre.key_concepts_covered)
        total == Len(content)
        count == call.pre.conversation_count + 1
        threshold == get_completion_threshold(call.pre.topic)
    IN  \/ IF total > 0 THEN covered * 100 >= 90 * total
           ELSE count * 100 >= 90 * threshold
        \/ covered >= total
        \/ count >= threshold

\* C26: a progress check completes the session exactly when the stated test
\* holds; in every other case it yields a progress_check response with
\* is_session_complete false and leaves is_complete false.
ProgressCheckCompletesWhenDue ==
    ProgressCheckCall =>
        IF StatedCompletionDue
        THEN /\ "complete" \in Steps(call)
             /\ cache[call.sid].is_complete
        ELSE /\ call.response_data.current_stage = "progress_check"
             /\ ~call.response_data.is_session_complete
             /\ ~cache[call.sid].is_complete

\* C33: a quiz that a mini_quiz turn created stays in progress until the next
\* turn the classifier labels mini_quiz, which evaluates it and creates no quiz:
\* creation and evaluation alternate on successive mini_quiz turns.
QuizFlagHeldUntilNextQuizTurn ==
    [][( /\ call'.op = "continue" /\ call'.found /\ quizzed[call'.sid]
         /\ call'.stage = "mini_quiz" )
       => /\ "create_quiz" \notin Steps(call')
          /\ "handler:quiz_feedback" \in Steps(call')]_vars

----------------------------------------------------------------------------
(* Properties of interleaved sessions (SpecPair) *)

\* the step leaves what the program holds for session id sid as it is
Untouched(sid) ==
    /\ cache'[sid] = cache[sid]
    /\ db'[sid] = db[sid]
    /\ flight'[sid] = flight[sid]

\* the durable document old after a turn of session s was saved with stage
\* label stage
DocAfterTurn(old, s, stage) ==
    [old EXCEPT
        !.exists = TRUE,
        !.keys = @ \cup {"session_id", "conversation_count", "current_stage",
                         "current_chunk_index", "concepts_covered"},
        !.conversation_count = s.conversation_count,
        !.current_stage = stage,
        !.current_chunk_index = 0,
        !.concepts_covered = s.key_concepts_covered,
        !.conversation_history = Append(@, [turn |-> s.conversation_count, stage |-> stage])]

\* what a step of a call on session id sid makes of the cache entry and the
\* durable document of sid, told from these two, the topic and the utterance of
\* the call alone: a start puts a new session in the cache; a continuation
\* counts the turn when it begins; a manual end sets the flag and writes
\* nothing; every other turn is saved when it ends, as user_question when it
\* was a question after the first turn and as general otherwise
OwnEffect(sid) ==
    LET counted == [cache[sid] EXCEPT !.conversation_count = @ + 1]
        q == call'.query
        stage_of(s) == IF s.conversation_count # 1 /\ _has_question_indicators(q)
                       THEN "user_question" ELSE "general"
    IN
    CASE call'.op = "start" ->
            /\ cache'[sid].session_id = sid
            /\ cache'[sid].topic = PairTopic[sid]
            /\ cache'[sid].conversation_count = 0
            /\ ~cache'[sid].is_complete
            /\ cache'[sid].key_concepts_covered = <<>>
            /\ db'[sid] = db[sid]
      [] call'.op = "begin" ->
            /\ cache'[sid] = counted
            /\ db'[sid] = db[sid]
      [] call'.op = "continue" /\ flight[sid].phase = 1 ->
            /\ q = flight[sid].query
            /\ cache'[sid] = cache[sid]
            /\ db'[sid] = DocAfterTurn(db[sid], cache[sid], stage_of(cache[sid]))
      [] call'.op = "continue" /\ flight[sid].phase = 0 /\ _should_end_session(q) ->
            /\ cache'[sid] = [counted EXCEPT !.is_complete = TRUE]
            /\ db'[sid] = db[sid]
      [] call'.op = "continue" /\ flight[sid].phase = 0 /\ ~_should_end_session(q) ->
            /\ cache'[sid] = counted
            /\ db'[sid] = DocAfterTurn(db[sid], counted, "general")

\* C23: processing is independent across sessions: under every interleaving of
\* the calls of two session ids at their suspension points, a step of a call
\* (a start, the beginning of a continuation up to its generator call, its end)
\* leaves the cache entry, the durable document and the suspended call of every
\* other session id as they are, and what it makes of its own session's
\* counter, covered concepts, flag, cache entry and durable records is what
\* that session's own entries and the call's arguments determine, whatever the
\* other session did before or has suspended.
SessionsIndependent ==
    [][ /\ \A sid \in SessionIds : sid # call'.sid => Untouched(sid)
        /\ OwnEffect(call'.sid) ]_vars

\* a session took its first turn, which is in its durable log, while the second
\* turn of the other session was waiting for its generator's result
SessionsIndependentReached ==
    /\ FoundContinue /\ call.sid = "B"
    /\ flight["B"].phase = 0 /\ ncont["B"] = 1
    /\ Len(db["B"].conversation_history) = 1
    /\ flight["A"].phase = 1 /\ ncont["A"] = 2
    /\ ~db["A"].exists \/ db["A"].conversation_count = 1

====
